---------------------------- MODULE Spec2Model ----------------------------
(***************************************************************************)
(* A model of the FreeScout poll engine (FreescoutCoordinator) of          *)
(* custom_components/freescout/coordinator.py: one polling cycle fans out  *)
(* four asyncio tasks (folders, open count, pending count, new-arrival     *)
(* detection), joins them with asyncio.gather, optionally awaits the       *)
(* agent-scoped count, aggregates the folder counts and returns the        *)
(* snapshot that the DataUpdateCoordinator base class stores in `data`.    *)
(*                                                                         *)
(* Every HTTP request is a suspension point: its response arrives in a     *)
(* step of its own, in any order, with a status of "ok", "http" (a non-2xx *)
(* response) or "conn" (an exception raised by the HTTP client).           *)
(* asyncio.gather propagates the first exception to its awaiter and does   *)
(* not cancel the sibling tasks, which keep running after the cycle has    *)
(* failed.                                                                 *)
(***************************************************************************)
EXTENDS Integers, Sequences, FiniteSets, TLC

(***************************************************************************)
(* Bounds of the model.                                                    *)
(***************************************************************************)
MaxCycles == 2          \* cycles the driver starts
MaxPages == 3           \* largest totalPages a folder page reports
FanOutPages == 2        \* the same, where two mailboxes are fetched at once
MaxConvs == 2           \* conversations in one answer to a detection request
MaxConvId == 2          \* conversation identifiers 1..MaxConvId
MaxFolders == 2         \* folders in one mailbox's page of an aggregation
MaxTotal == 2           \* largest totalElements a count query reports
MaxRequests == 4        \* pages of one mailbox an ever-growing helpdesk is asked for

(***************************************************************************)
(* Program constants.                                                      *)
(***************************************************************************)
FOLDER_TYPE_UNASSIGNED == 1
FOLDER_TYPE_SNOOZED == 180
FOLDER_TYPE_CUSTOM == 185
DEFAULT_AGENT_ID == 0
FOLDER_KEY_PREFIX == "folder_"
SENSOR_OPEN == "open_tickets"
SENSOR_UNASSIGNED == "unassigned_tickets"
SENSOR_PENDING == "pending_tickets"
SENSOR_SNOOZED == "snoozed_tickets"
SENSOR_MY_TICKETS == "my_tickets"
SENSOR_NEW == "new_tickets"

VARIABLES
    mailbox_ids,      \* self.mailbox_ids: the configured filter, a sequence
    agent_id,         \* self.agent_id: 0 = feature disabled
    custom_folders,   \* self.custom_folders: sequence of [name, key]
    known_ids,        \* self._known_ids
    first_refresh,    \* self._first_refresh
    data,             \* coordinator.data: None or the last stored snapshot
    pc,               \* where _async_update_data is: "idle", "gather", "agent",
                      \* "except" (an exception is on its way to the except clauses)
    cycle,            \* number of cycles started so far
    outcome,          \* how the last ended cycle ended: "none", "ok", "failed"
    errors,           \* the failed requests of the cycle in flight: [task, status]
    at_start,         \* known_ids and first_refresh as the cycle in flight found them
    folders_task,     \* the cycle's _fetch_all_folders_for_mailboxes task
    open_task,        \* the cycle's open-count task
    pending_task,     \* the cycle's pending-count task
    my_task,          \* the cycle's awaited agent-scoped count
    new_task,         \* per cycle: its _check_new_conversations task
    sent,             \* conversation and mailbox-list requests the cycle issued
    fired             \* events fired by the latest detection run, in order

vars == <<mailbox_ids, agent_id, custom_folders, known_ids, first_refresh, data,
          pc, cycle, outcome, errors, at_start, folders_task, open_task, pending_task, my_task,
          new_task, sent, fired>>

(***************************************************************************)
(* Python values.  None and a pending result are the empty tuple, a        *)
(* present value v is <<v>>.  A JSON object is a record whose fields may   *)
(* be missing; Get is dict.get(key, default).                              *)
(* The envelopes of the API's bodies ("_embedded", "page") are left out: a *)
(* body is the record of the fields the code reads from it.                *)
(***************************************************************************)
None == <<>>

Some(v) == <<v>>

Get(d, k, default) == IF k \in DOMAIN d THEN d[k] ELSE default

RECURSIVE Flatten(_)
Flatten(lists) ==
    IF lists = <<>> THEN <<>> ELSE Head(lists) \o Flatten(Tail(lists))

RECURSIVE SumSeq(_)
SumSeq(ns) == IF ns = <<>> THEN 0 ELSE Head(ns) + SumSeq(Tail(ns))

\* The number of concurrent requests of one fan-out: one per filtered
\* mailbox, or a single unfiltered request.
Slots == IF mailbox_ids = <<>> THEN {1} ELSE DOMAIN mailbox_ids

AllArrived(res) == \A i \in DOMAIN res : res[i] # None

Results(res) == [i \in DOMAIN res |-> res[i][1]]

(***************************************************************************)
(* New-arrival detection: the pure parts of _check_new_conversations.      *)
(***************************************************************************)
\* int(c["id"]): the API's identifiers are JSON integers.
ConvId(c) == c.id

\* A merge in which a later occurrence of an identifier replaces the earlier.
RECURSIVE DedupKeepingLast(_, _)
DedupKeepingLast(convs, seen) ==
    IF convs = <<>> THEN <<>>
    ELSE IF \E j \in 2..Len(convs) : ConvId(convs[j]) = ConvId(Head(convs))
         THEN DedupKeepingLast(Tail(convs), seen)
         ELSE <<Head(convs)>> \o DedupKeepingLast(Tail(convs), seen)

\* The merge loop of the filtered path: one `seen` set across all mailboxes,
\* the first occurrence of an identifier is kept.
RECURSIVE Dedup(_, _)
Dedup(convs, seen) ==
    IF convs = <<>> THEN <<>>
    ELSE IF ConvId(Head(convs)) \in seen THEN Dedup(Tail(convs), seen)
    ELSE <<Head(convs)>> \o Dedup(Tail(convs), seen \cup {ConvId(Head(convs))})

Merge(per_mailbox) == Dedup(Flatten(per_mailbox), {})

\* `conversations` as the detection holds it once its fetches returned.
Conversations(per_mailbox) ==
    IF mailbox_ids = <<>> THEN per_mailbox[1] ELSE Merge(per_mailbox)

CurrentIds(convs) == {ConvId(convs[i]) : i \in DOMAIN convs}

NewIds(convs, known) == CurrentIds(convs) \ known

\* The payload of one freescout_new_conversation event.
Event(conv) ==
    [conversation_id |-> conv.id,
     subject |-> Get(conv, "subject", ""),
     mailbox_id |-> Get(conv, "mailboxId", None)]

\* An emit loop that runs over `conversations` from its end.
RECURSIVE FireEventsFromTheEnd(_, _)
FireEventsFromTheEnd(convs, new_ids) ==
    IF convs = <<>> THEN <<>>
    ELSE IF ConvId(Head(convs)) \in new_ids
         THEN FireEventsFromTheEnd(Tail(convs), new_ids) \o <<Event(Head(convs))>>
         ELSE FireEventsFromTheEnd(Tail(convs), new_ids)

\* The emit loop: one event per element of `conversations` whose id is new.
RECURSIVE FireEvents(_, _)
FireEvents(convs, new_ids) ==
    IF convs = <<>> THEN <<>>
    ELSE IF ConvId(Head(convs)) \in new_ids
         THEN <<Event(Head(convs))>> \o FireEvents(Tail(convs), new_ids)
         ELSE FireEvents(Tail(convs), new_ids)

(***************************************************************************)
(* Aggregation: the pure parts of _async_update_data after the fetches.    *)
(***************************************************************************)
HasType(f, t) == "type" \in DOMAIN f /\ f.type = t

ActiveCount(f) == Get(f, "activeCount", 0)

\* A sum that takes every folder, whatever its type.
RECURSIVE SumActiveOfAnyType(_, _)
SumActiveOfAnyType(folders, t) ==
    IF folders = <<>> THEN 0
    ELSE ActiveCount(Head(folders)) + SumActiveOfAnyType(Tail(folders), t)

\* sum(f.get("activeCount", 0) for f in folders if f.get("type") == t)
RECURSIVE SumActive(_, _)
SumActive(folders, t) ==
    IF folders = <<>> THEN 0
    ELSE (IF HasType(Head(folders), t) THEN ActiveCount(Head(folders)) ELSE 0)
         + SumActive(Tail(folders), t)

\* A Python dict in insertion order: a sequence of [key, value] without
\* repeated keys.
DictGet(d, k, default) ==
    IF \E i \in DOMAIN d : d[i].key = k
    THEN d[CHOOSE i \in DOMAIN d : d[i].key = k].value
    ELSE default

DictPut(d, k, v) ==
    IF \E i \in DOMAIN d : d[i].key = k
    THEN [i \in DOMAIN d |-> IF d[i].key = k THEN [key |-> k, value |-> v] ELSE d[i]]
    ELSE Append(d, [key |-> k, value |-> v])

FolderKey(name) == FOLDER_KEY_PREFIX \o name

FolderName(key) == SubSeq(key, Len(FOLDER_KEY_PREFIX) + 1, Len(key))

\* An aggregation that keeps the last count seen under a name.
CountIntoOverwriting(custom_counts, folder) ==
    IF HasType(folder, FOLDER_TYPE_CUSTOM)
    THEN DictPut(custom_counts, FolderKey(folder.name), ActiveCount(folder))
    ELSE custom_counts

CountInto(custom_counts, folder) ==
    IF HasType(folder, FOLDER_TYPE_CUSTOM)
    THEN DictPut(custom_counts, FolderKey(folder.name),
                 DictGet(custom_counts, FolderKey(folder.name), 0) + ActiveCount(folder))
    ELSE custom_counts

RECURSIVE CustomCountsFrom(_, _)
CustomCountsFrom(folders, custom_counts) ==
    IF folders = <<>> THEN custom_counts
    ELSE CustomCountsFrom(Tail(folders), CountInto(custom_counts, Head(folders)))

CustomCounts(all_folders) == CustomCountsFrom(all_folders, <<>>)

\* A registry that is derived anew by every cycle.
RebuildCustomFolders(registry, custom_counts) ==
    [i \in DOMAIN custom_counts |->
        [name |-> FolderName(custom_counts[i].key), key |-> custom_counts[i].key]]

\* self.custom_folders after the "build once" statement.
BuildCustomFolders(registry, custom_counts) ==
    IF registry = <<>> /\ custom_counts # <<>>
    THEN [i \in DOMAIN custom_counts |->
            [name |-> FolderName(custom_counts[i].key), key |-> custom_counts[i].key]]
    ELSE registry

DictAsFunction(d) == [k \in {d[i].key : i \in DOMAIN d} |-> DictGet(d, k, 0)]

\* A dict whose folder keys are those of the registry as the statement finds it.
SnapshotOfRegistered(all_folders, open_count, pending_count, new_count, my_tickets_count) ==
    LET counts == DictAsFunction(CustomCounts(all_folders))
        registered == {custom_folders[i].key : i \in DOMAIN custom_folders}
    IN  [k \in DOMAIN counts \cap registered |-> counts[k]] @@
        (SENSOR_OPEN :> open_count) @@
        (SENSOR_UNASSIGNED :> SumActive(all_folders, FOLDER_TYPE_UNASSIGNED)) @@
        (SENSOR_PENDING :> pending_count) @@
        (SENSOR_SNOOZED :> SumActive(all_folders, FOLDER_TYPE_SNOOZED)) @@
        (SENSOR_NEW :> new_count) @@
        (SENSOR_MY_TICKETS :> my_tickets_count)

\* A dict that carries over the folder values the driver already holds.
MixedSnapshot(all_folders, open_count, pending_count, new_count, my_tickets_count) ==
    LET fresh == (SENSOR_OPEN :> open_count) @@
                 (SENSOR_UNASSIGNED :> SumActive(all_folders, FOLDER_TYPE_UNASSIGNED)) @@
                 (SENSOR_PENDING :> pending_count) @@
                 (SENSOR_SNOOZED :> SumActive(all_folders, FOLDER_TYPE_SNOOZED)) @@
                 (SENSOR_NEW :> new_count) @@
                 (SENSOR_MY_TICKETS :> my_tickets_count)
    IN  IF data = None THEN DictAsFunction(CustomCounts(all_folders)) @@ fresh
        ELSE fresh @@ data[1]

\* The returned dict: the fixed keys, then **custom_counts.
Snapshot(all_folders, open_count, pending_count, new_count, my_tickets_count) ==
    DictAsFunction(CustomCounts(all_folders)) @@
    (SENSOR_OPEN :> open_count) @@
    (SENSOR_UNASSIGNED :> SumActive(all_folders, FOLDER_TYPE_UNASSIGNED)) @@
    (SENSOR_PENDING :> pending_count) @@
    (SENSOR_SNOOZED :> SumActive(all_folders, FOLDER_TYPE_SNOOZED)) @@
    (SENSOR_NEW :> new_count) @@
    (SENSOR_MY_TICKETS :> my_tickets_count)

(***************************************************************************)
(* Requests.                                                               *)
(***************************************************************************)
MailboxParam(i) ==
    IF mailbox_ids = <<>> THEN <<>> ELSE [mailboxId |-> ToString(mailbox_ids[i])]

\* _get_count: {**params, "perPage": "1", "page": "1"}
CountRequest(base_params, i) ==
    [path |-> "/api/conversations",
     params |-> [perPage |-> "1", page |-> "1"] @@ MailboxParam(i) @@ base_params]

\* _fetch_recent_conversations: {"status": "active", "perPage": "50", "page": "1", **extra}
RecentRequest(i) ==
    [path |-> "/api/conversations",
     params |-> MailboxParam(i) @@ [status |-> "active", perPage |-> "50", page |-> "1"]]

MailboxesRequest == [path |-> "/api/mailboxes", params |-> <<>>]

OpenParams == [status |-> "active"]

PendingParams == [status |-> "pending"]

AgentParams == [status |-> "active", assignedTo |-> ToString(agent_id)]

\* One request per slot of the fan-out, in the order gather is given them.
CountRequests(base_params) ==
    [i \in 1..Cardinality(Slots) |-> CountRequest(base_params, i)]

RecentRequests == [i \in 1..Cardinality(Slots) |-> RecentRequest(i)]

(***************************************************************************)
(* Task states.                                                            *)
(***************************************************************************)
Pending == [i \in Slots |-> None]

IdleCount == [st |-> "idle", res |-> <<>>, ret |-> 0]

RunCount == [st |-> "run", res |-> Pending, ret |-> 0]

IdleFolders == [st |-> "idle", mbs |-> <<>>, fetch |-> <<>>, ret |-> <<>>]

\* _fetch_all_folders_for_mailbox at its first request: page = 1.  `log` is
\* the pages requested so far, `got` the bodies of the pages answered so far.
FirstPage == [page |-> 1, all_folders |-> <<>>, log |-> <<1>>, got |-> <<>>, st |-> "wait"]

FanOut(mailbox_list) ==
    [st |-> "fan", mbs |-> mailbox_list,
     fetch |-> [i \in DOMAIN mailbox_list |-> FirstPage], ret |-> <<>>]

FoldersDone(mailbox_list, fetch) ==
    [st |-> "done", mbs |-> mailbox_list, fetch |-> fetch,
     ret |-> Flatten([i \in DOMAIN fetch |-> fetch[i].all_folders])]

NoTask == [st |-> "none", res |-> <<>>, ret |-> 0]

\* A detection task awaiting its answers; `order` is the order in which the
\* answers arrive.
Fetching == [st |-> "fetch", res |-> Pending, ret |-> 0, order |-> <<>>]

Cycles == 1..MaxCycles

AgentIds == {DEFAULT_AGENT_ID, 7}

\* The coordinator as __init__ leaves it, configured with one of `filters`.
Constructed(filters) ==
    /\ mailbox_ids \in filters
    /\ agent_id \in AgentIds
    /\ custom_folders = <<>>
    /\ known_ids = {}
    /\ first_refresh = TRUE
    /\ data = None
    /\ pc = "idle"
    /\ cycle = 0
    /\ outcome = "none"
    /\ errors = {}
    /\ at_start = [known |-> {}, first |-> TRUE]
    /\ folders_task = IdleFolders
    /\ open_task = IdleCount
    /\ pending_task = IdleCount
    /\ my_task = IdleCount
    /\ new_task = [c \in Cycles |-> NoTask]
    /\ sent = <<>>
    /\ fired = <<>>

(***************************************************************************)
(* The driver starts a cycle: _async_update_data creates the four tasks    *)
(* and awaits their gather; each task runs to its first request.           *)
(***************************************************************************)
StartCycle(limit) ==
    /\ pc = "idle"
    /\ cycle < limit
    /\ cycle' = cycle + 1
    /\ pc' = "gather"
    /\ folders_task' = IF mailbox_ids # <<>> THEN FanOut(mailbox_ids)
                       ELSE [IdleFolders EXCEPT !.st = "list"]
    /\ open_task' = RunCount
    /\ pending_task' = RunCount
    /\ my_task' = IdleCount
    /\ new_task' = [new_task EXCEPT ![cycle + 1] = Fetching]
    /\ sent' = (IF mailbox_ids # <<>> THEN <<>> ELSE <<MailboxesRequest>>)
               \o CountRequests(OpenParams) \o CountRequests(PendingParams)
               \o RecentRequests
    /\ at_start' = [known |-> known_ids, first |-> first_refresh]
    /\ UNCHANGED <<mailbox_ids, agent_id, custom_folders, known_ids,
                   first_refresh, data, outcome, errors, fired>>

\* The log of the cycle's failed requests after an answer of `status`.
Logged(task, status) ==
    IF status = "ok" THEN errors
    ELSE errors \cup {[task |-> task, status |-> status]}

(***************************************************************************)
(* A request of the cycle in flight fails: the exception leaves its task   *)
(* and the gather (or the awaited agent count) and is on its way to the    *)
(* except clauses of _async_update_data.  The sibling tasks are not        *)
(* cancelled; those whose result nobody reads and that touch no field of   *)
(* the coordinator are followed no further, a detection task that is still *)
(* fetching stays in new_task.                                             *)
(***************************************************************************)
Raise(task, status, detection) ==
    /\ pc' = "except"
    /\ errors' = Logged(task, status)
    /\ folders_task' = IdleFolders
    /\ open_task' = IdleCount
    /\ pending_task' = IdleCount
    /\ my_task' = IdleCount
    /\ new_task' = [new_task EXCEPT ![cycle] = detection]
    /\ UNCHANGED <<at_start, mailbox_ids, agent_id, custom_folders, known_ids,
                   first_refresh, data, cycle, outcome, sent, fired>>

\* An engine for which a failed cycle counts as its first refresh.
UpdateFailedEndsColdStart ==
    /\ pc = "except"
    /\ pc' = "idle"
    /\ outcome' = "failed"
    /\ errors' = {}
    /\ first_refresh' = FALSE
    /\ UNCHANGED <<at_start, mailbox_ids, agent_id, custom_folders, known_ids,
                   data, cycle, folders_task, open_task,
                   pending_task, my_task, new_task, sent, fired>>

\* The except clauses raise UpdateFailed: nothing is returned, and the
\* DataUpdateCoordinator keeps `data` as it is.
UpdateFailed ==
    /\ pc = "except"
    /\ pc' = "idle"
    /\ outcome' = "failed"
    /\ errors' = {}
    /\ UNCHANGED <<at_start, mailbox_ids, agent_id, custom_folders, known_ids,
                   first_refresh, data, cycle, folders_task, open_task,
                   pending_task, my_task, new_task, sent, fired>>

\* What is left of the cycle's detection task when a sibling fails.
Leftover == IF new_task[cycle].st = "fetch" THEN new_task[cycle] ELSE NoTask

\* A client that raises on every failed answer.
RaisesOnAnyFailure(status) == status # "ok"

\* A client whose connection errors are answered like a non-2xx status.
ConnectionErrorsAreAnswers(status) == FALSE

\* session.get raises on a connection-level error.
ClientRaises(status) == status = "conn"

\* A client that skips raise_for_status.
RaiseOnConnectionOnly(status) == status = "conn"

\* session.get followed by resp.raise_for_status().
RaiseForStatus(status) == ClientRaises(status) \/ status = "http"

(***************************************************************************)
(* _fetch_all_mailbox_ids answers (only issued with an empty filter).      *)
(***************************************************************************)
MailboxIds(body) ==
    LET mbs == Get(body, "mailboxes", <<>>) IN [k \in DOMAIN mbs |-> mbs[k].id]

MailboxesResponse(status, body) ==
    /\ pc = "gather"
    /\ folders_task.st = "list"
    /\ IF ClientRaises(status)
       THEN Raise("mailboxes", status, Leftover)
       ELSE /\ folders_task' =
                 IF status = "ok" /\ MailboxIds(body) # <<>>
                 THEN FanOut(MailboxIds(body))
                 ELSE FoldersDone(<<>>, <<>>)
            /\ errors' = Logged("mailboxes", status)
            /\ UNCHANGED <<at_start, mailbox_ids, agent_id, custom_folders, known_ids,
                           first_refresh, data, pc, cycle, outcome, open_task,
                           pending_task, my_task, new_task, sent, fired>>

(***************************************************************************)
(* _fetch_all_folders_for_mailbox: one pass of the while loop per answer.  *)
(***************************************************************************)
\* A loop that stops one page late.
AfterPageOffByOne(f, body) ==
    LET got == [f EXCEPT !.all_folders = @ \o Get(body, "folders", <<>>),
                         !.got = Append(@, body)]
    IN  IF f.page > Get(body, "totalPages", 1)
        THEN [got EXCEPT !.st = "done"]
        ELSE [got EXCEPT !.page = f.page + 1, !.log = Append(@, f.page + 1)]

\* resp.ok: extend, then stop when page >= totalPages (1 when absent).
AfterPage(f, body) ==
    LET got == [f EXCEPT !.all_folders = @ \o Get(body, "folders", <<>>),
                         !.got = Append(@, body)]
    IN  IF f.page >= Get(body, "totalPages", 1)
        THEN [got EXCEPT !.st = "done"]
        ELSE [got EXCEPT !.page = f.page + 1, !.log = Append(@, f.page + 1)]

\* not resp.ok: warn and break; what was collected so far is returned.
AfterHttpError(f) == [f EXCEPT !.st = "broke"]

FoldersStep(fetch) ==
    IF \A i \in DOMAIN fetch : fetch[i].st # "wait"
    THEN FoldersDone(folders_task.mbs, fetch)
    ELSE [folders_task EXCEPT !.fetch = fetch]

FoldersResponse(i, status, body) ==
    /\ pc = "gather"
    /\ folders_task.st = "fan"
    /\ i \in DOMAIN folders_task.fetch
    /\ folders_task.fetch[i].st = "wait"
    /\ IF ClientRaises(status)
       THEN Raise("folders", status, Leftover)
       ELSE /\ folders_task' = FoldersStep(
                 [folders_task.fetch EXCEPT ![i] =
                     IF status = "ok" THEN AfterPage(@, body) ELSE AfterHttpError(@)])
            /\ errors' = Logged("folders", status)
            /\ UNCHANGED <<at_start, mailbox_ids, agent_id, custom_folders, known_ids,
                           first_refresh, data, pc, cycle, outcome, open_task,
                           pending_task, my_task, new_task, sent, fired>>

(***************************************************************************)
(* _get_count answers; _get_count_for_mailboxes sums them.                 *)
(***************************************************************************)
TotalElements(body) == Get(body, "totalElements", 0)

\* A count that returns the last total it was sent.
CountStepLastOnly(task, i, body) ==
    LET res == [task.res EXCEPT ![i] = Some(Get(body, "totalElements", 0))]
    IN  IF AllArrived(res)
        THEN [st |-> "done", res |-> res, ret |-> Get(body, "totalElements", 0)]
        ELSE [task EXCEPT !.res = res]

CountStep(task, i, body) ==
    LET res == [task.res EXCEPT ![i] = Some(TotalElements(body))]
    IN  IF AllArrived(res)
        THEN [st |-> "done", res |-> res, ret |-> SumSeq(Results(res))]
        ELSE [task EXCEPT !.res = res]

Awaiting(task, i) == task.st = "run" /\ i \in DOMAIN task.res /\ task.res[i] = None

OpenCountResponse(i, status, body) ==
    /\ pc = "gather"
    /\ Awaiting(open_task, i)
    /\ IF RaiseForStatus(status)
       THEN Raise("open", status, Leftover)
       ELSE /\ open_task' = CountStep(open_task, i, body)
            /\ errors' = Logged("open", status)
            /\ UNCHANGED <<at_start, mailbox_ids, agent_id, custom_folders, known_ids,
                           first_refresh, data, pc, cycle, outcome, folders_task,
                           pending_task, my_task, new_task, sent, fired>>

PendingCountResponse(i, status, body) ==
    /\ pc = "gather"
    /\ Awaiting(pending_task, i)
    /\ IF RaiseForStatus(status)
       THEN Raise("pending", status, Leftover)
       ELSE /\ pending_task' = CountStep(pending_task, i, body)
            /\ errors' = Logged("pending", status)
            /\ UNCHANGED <<at_start, mailbox_ids, agent_id, custom_folders, known_ids,
                           first_refresh, data, pc, cycle, outcome, folders_task,
                           open_task, my_task, new_task, sent, fired>>

AgentCountResponse(i, status, body) ==
    /\ pc = "agent"
    /\ Awaiting(my_task, i)
    /\ IF RaiseForStatus(status)
       THEN Raise("agent", status, Leftover)
       ELSE /\ my_task' = CountStep(my_task, i, body)
            /\ errors' = Logged("agent", status)
            /\ UNCHANGED <<at_start, mailbox_ids, agent_id, custom_folders, known_ids,
                           first_refresh, data, pc, cycle, outcome, folders_task,
                           open_task, pending_task, new_task, sent, fired>>

(***************************************************************************)
(* _check_new_conversations.  The tasks of failed cycles that are still    *)
(* fetching take the same steps as the task of the cycle in flight.        *)
(***************************************************************************)
\* The task of cycle c is one the running gather waits for.
Joined(c) == c = cycle /\ pc = "gather"

RecentResponse(c, i, status, body) ==
    /\ new_task[c].st = "fetch"
    /\ i \in DOMAIN new_task[c].res
    /\ new_task[c].res[i] = None
    /\ IF RaiseForStatus(status)
       THEN IF Joined(c)
            THEN Raise("recent", status, NoTask)
            ELSE /\ new_task' = [new_task EXCEPT ![c] = NoTask]
                 /\ UNCHANGED <<at_start, errors, mailbox_ids, agent_id, custom_folders, known_ids,
                                first_refresh, data, pc, cycle, outcome,
                                folders_task, open_task, pending_task, my_task,
                                sent, fired>>
       ELSE /\ new_task' = [new_task EXCEPT
                               ![c].res[i] = Some(Get(body, "conversations", <<>>)),
                               ![c].order = Append(@, i)]
            /\ errors' = IF Joined(c) THEN Logged("recent", status) ELSE errors
            /\ UNCHANGED <<at_start, mailbox_ids, agent_id, custom_folders, known_ids,
                           first_refresh, data, pc, cycle, outcome, folders_task,
                           open_task, pending_task, my_task, sent, fired>>

\* A detection seen after its emit loop and before its last assignment.
CheckNewBeforeReplacing(convs, known, first) ==
    IF first
    THEN [known |-> CurrentIds(convs), first |-> FALSE, ret |-> 0, fired |-> <<>>]
    ELSE [known |-> known, first |-> FALSE,
          ret |-> Cardinality(NewIds(convs, known)),
          fired |-> FireEvents(convs, NewIds(convs, known))]

\* A detection that adds what it fetched to what it knew.
CheckNewAccumulating(convs, known, first) ==
    IF first
    THEN [known |-> CurrentIds(convs), first |-> FALSE, ret |-> 0, fired |-> <<>>]
    ELSE [known |-> known \cup CurrentIds(convs), first |-> FALSE,
          ret |-> Cardinality(NewIds(convs, known)),
          fired |-> FireEvents(convs, NewIds(convs, known))]

\* A detection without the first-refresh branch.
CheckNewWithoutColdStart(convs, known, first) ==
    [known |-> CurrentIds(convs), first |-> FALSE,
     ret |-> Cardinality(NewIds(convs, known)),
     fired |-> FireEvents(convs, NewIds(convs, known))]

\* From `current_ids = ...` to the return: no await in between.
CheckNew(convs, known, first) ==
    IF first
    THEN [known |-> CurrentIds(convs), first |-> FALSE, ret |-> 0, fired |-> <<>>]
    ELSE [known |-> CurrentIds(convs), first |-> FALSE,
          ret |-> Cardinality(NewIds(convs, known)),
          fired |-> FireEvents(convs, NewIds(convs, known))]

Fetched(c) == Conversations(Results(new_task[c].res))

Detect(c) ==
    /\ new_task[c].st = "fetch"
    /\ AllArrived(new_task[c].res)
    /\ LET r == CheckNew(Fetched(c), known_ids, first_refresh)
       IN  /\ known_ids' = r.known
           /\ first_refresh' = r.first
           /\ fired' = r.fired
           /\ new_task' = [new_task EXCEPT ![c] =
                             IF Joined(c)
                             THEN [new_task[c] EXCEPT !.st = "done", !.ret = r.ret]
                             ELSE NoTask]
    /\ UNCHANGED <<at_start, errors, mailbox_ids, agent_id, custom_folders, data, pc, cycle,
                   outcome, folders_task, open_task, pending_task, my_task, sent>>

(***************************************************************************)
(* After the gather.                                                       *)
(***************************************************************************)
Gathered ==
    /\ pc = "gather"
    /\ folders_task.st = "done"
    /\ open_task.st = "done"
    /\ pending_task.st = "done"
    /\ new_task[cycle].st = "done"

\* An engine that starts the agent-scoped count while the gather is pending.
AwaitAgentEarly ==
    /\ pc = "gather"
    /\ agent_id # 0
    /\ my_task.st = "idle"
    /\ my_task' = RunCount
    /\ sent' = sent \o CountRequests(AgentParams)
    /\ UNCHANGED <<at_start, errors, mailbox_ids, agent_id, custom_folders, known_ids,
                   first_refresh, data, pc, cycle, outcome, folders_task, open_task,
                   pending_task, new_task, fired>>

\* `if self.agent_id:` awaits the agent-scoped count.
AwaitAgent ==
    /\ Gathered
    /\ agent_id # 0
    /\ pc' = "agent"
    /\ my_task' = RunCount
    /\ sent' = sent \o CountRequests(AgentParams)
    /\ UNCHANGED <<at_start, errors, mailbox_ids, agent_id, custom_folders, known_ids,
                   first_refresh, data, cycle, outcome, folders_task, open_task,
                   pending_task, new_task, fired>>

\* An engine that reports the agent count whether or not it asked for it.
MyTicketsUngated == Some(my_task.ret)

MyTicketsCount == IF pc = "agent" THEN Some(my_task.ret) ELSE None

CycleSnapshot ==
    Snapshot(folders_task.ret, open_task.ret, pending_task.ret,
             new_task[cycle].ret, MyTicketsCount)

\* Aggregation and return; the DataUpdateCoordinator stores what is returned.
Aggregate ==
    /\ \/ Gathered /\ agent_id = 0
       \/ pc = "agent" /\ my_task.st = "done"
    /\ custom_folders' = BuildCustomFolders(custom_folders, CustomCounts(folders_task.ret))
    /\ data' = Some(CycleSnapshot)
    /\ pc' = "idle"
    /\ outcome' = "ok"
    /\ errors' = {}
    /\ folders_task' = IdleFolders
    /\ open_task' = IdleCount
    /\ pending_task' = IdleCount
    /\ my_task' = IdleCount
    /\ new_task' = [new_task EXCEPT ![cycle] = NoTask]
    /\ UNCHANGED <<at_start, mailbox_ids, agent_id, known_ids, first_refresh, cycle,
                   sent, fired>>

(***************************************************************************)
(* What the helpdesk may answer.                                           *)
(***************************************************************************)
Statuses == {"ok", "http", "conn"}

SeqsUpTo(S, n) == UNION {[1..k -> S] : k \in 0..n}

\* The mailbox a slot's conversations come from (any one when unfiltered).
SlotMailbox(i) == IF mailbox_ids = <<>> THEN 5 ELSE mailbox_ids[i]

\* A response listing the conversations `ids`, each with a subject of its own.
ConvList(ids, mb) ==
    [k \in DOMAIN ids |->
        [id |-> ids[k], mailboxId |-> mb, subject |-> "s" \o ToString(k)]]

RecentBodies(idLists, i) ==
    {<<>>} \cup {[conversations |-> ConvList(ids, SlotMailbox(i))] : ids \in idLists}

CountBodies(totals) == {<<>>} \cup {[totalElements |-> n] : n \in totals}

MailboxBodies == {<<>>, [mailboxes |-> <<[id |-> 5]>>]}

Unassigned2 == [type |-> FOLDER_TYPE_UNASSIGNED, name |-> "Unassigned", activeCount |-> 2]

Snoozed1 == [type |-> FOLDER_TYPE_SNOOZED, name |-> "Snoozed", activeCount |-> 1]

CustomA2 == [type |-> FOLDER_TYPE_CUSTOM, name |-> "A", activeCount |-> 2]

CustomA3 == [type |-> FOLDER_TYPE_CUSTOM, name |-> "A", activeCount |-> 3]

CustomB == [type |-> FOLDER_TYPE_CUSTOM, name |-> "B"]

\* A folder of a type the aggregation has no name for (the agent's own).
Mine4 == [type |-> 20, name |-> "Mine", activeCount |-> 4]

\* Pages holding one of `lists`, reporting one of `pages` as totalPages or none.
FolderBodies(lists, pages) ==
    {[folders |-> fs] : fs \in lists}
    \cup {[folders |-> fs, totalPages |-> n] : fs \in lists, n \in pages}

\* The bodies that matter for an answer of `status`: none when it failed.
BodiesFor(status, bodies) == IF status = "ok" THEN bodies ELSE {<<>>}

\* One step of the engine or of the helpdesk, the driver starting at most
\* `limit` cycles and the helpdesk answering from the given domains.
Step(limit, folderBodies, totals, idLists) ==
    \/ StartCycle(limit)
    \/ \E s \in Statuses : \E b \in BodiesFor(s, MailboxBodies) :
          MailboxesResponse(s, b)
    \/ \E i \in 1..2, s \in Statuses : \E b \in BodiesFor(s, folderBodies) :
          FoldersResponse(i, s, b)
    \/ \E i \in Slots, s \in Statuses : \E b \in BodiesFor(s, CountBodies(totals)) :
          OpenCountResponse(i, s, b)
    \/ \E i \in Slots, s \in Statuses : \E b \in BodiesFor(s, CountBodies(totals)) :
          PendingCountResponse(i, s, b)
    \/ \E i \in Slots, s \in Statuses : \E b \in BodiesFor(s, CountBodies(totals)) :
          AgentCountResponse(i, s, b)
    \/ \E c \in Cycles, i \in Slots, s \in Statuses :
          \E b \in BodiesFor(s, RecentBodies(idLists, i)) : RecentResponse(c, i, s, b)
    \/ \E c \in Cycles : Detect(c)
    \/ AwaitAgent
    \/ Aggregate
    \/ UpdateFailed

(***************************************************************************)
(* Spec: the engine from construction over MaxCycles cycles, unfiltered or *)
(* filtered to one mailbox.                                                *)
(***************************************************************************)
Init == Constructed({<<>>, <<5>>})

Next ==
    Step(MaxCycles,
         FolderBodies({<<>>, <<Unassigned2, CustomA2>>, <<Snoozed1, CustomB>>}, {}),
         {1}, {<<1>>})

Spec == Init /\ [][Next]_vars

(***************************************************************************)
(* SpecFanOut: one cycle of an engine that is unfiltered or filtered to    *)
(* two mailboxes, every folder page holding an unassigned, a snoozed and a *)
(* custom folder and reporting any totalPages up to FanOutPages or none.   *)
(***************************************************************************)
InitFanOut == Constructed({<<>>, <<5, 9>>})

NextFanOut ==
    Step(1, FolderBodies({<<Unassigned2, Snoozed1, CustomA2>>}, 1..FanOutPages), {}, {})

SpecFanOut == InitFanOut /\ [][NextFanOut]_vars

(***************************************************************************)
(* SpecPages: one cycle of an engine that is unfiltered or filtered to one *)
(* mailbox, the folder pages reporting any totalPages up to MaxPages or    *)
(* none.                                                                   *)
(***************************************************************************)
InitPages == Constructed({<<>>, <<5>>})

NextPages ==
    Step(1, FolderBodies({<<Unassigned2>>}, 1..MaxPages), {}, {<<1>>})

SpecPages == InitPages /\ [][NextPages]_vars

(***************************************************************************)
(* Cycles seen from their last steps.  The states below are states a       *)
(* cycle reaches once all its requests but the ones under study have been  *)
(* answered with empty bodies; a cycle other than the first follows        *)
(* cycles that failed after their detection had run, so that known_ids may *)
(* be any set while nothing has been returned yet.                         *)
(***************************************************************************)
EmptyPage == [folders |-> <<>>]

DoneCount == [st |-> "done", res |-> [i \in Slots |-> Some(TotalElements(<<>>))], ret |-> 0]

\* The fields a running cycle's first step has set.
Started ==
    /\ pc = "gather"
    /\ errors = {}
    /\ at_start = [known |-> known_ids, first |-> first_refresh]
    /\ sent = (IF mailbox_ids # <<>> THEN <<>> ELSE <<MailboxesRequest>>)
              \o CountRequests(OpenParams) \o CountRequests(PendingParams)
              \o RecentRequests
    /\ open_task = DoneCount
    /\ pending_task = DoneCount
    /\ my_task = IdleCount
    /\ fired = <<>>

\* The detection of the cycle holds the answers to all its requests.
InDetection(filters) ==
    /\ mailbox_ids \in filters
    /\ agent_id = DEFAULT_AGENT_ID
    /\ custom_folders = <<>>
    /\ data = None
    /\ \/ first_refresh = TRUE /\ known_ids = {} /\ cycle = 1 /\ outcome = "none"
       \/ /\ first_refresh = FALSE
          /\ known_ids \in SUBSET (1..MaxConvId)
          /\ cycle = MaxCycles
          /\ outcome = "failed"
    /\ Started
    /\ folders_task =
          FoldersDone(mailbox_ids,
                      [i \in DOMAIN mailbox_ids |-> AfterPage(FirstPage, EmptyPage)])
    /\ \E ids \in [Slots -> SeqsUpTo(1..MaxConvId, MaxConvs)] :
          new_task = [c \in Cycles |->
                        IF c = cycle
                        THEN [st |-> "fetch",
                              res |-> [i \in Slots |->
                                         Some(ConvList(ids[i], SlotMailbox(i)))],
                              ret |-> 0,
                              order |-> [k \in 1..Cardinality(Slots) |-> k]]
                        ELSE NoTask]

FolderPool == {Unassigned2, Snoozed1, CustomA2, CustomA3, CustomB, Mine4}

\* The cycle's tasks have all returned, the folder task with one page of
\* folders per mailbox.
InAggregation(filters) ==
    /\ mailbox_ids \in filters
    /\ agent_id = DEFAULT_AGENT_ID
    /\ custom_folders = <<>>
    /\ data = None
    /\ first_refresh = FALSE
    /\ known_ids = {}
    /\ cycle = MaxCycles
    /\ outcome = "failed"
    /\ Started
    /\ \E lists \in [DOMAIN mailbox_ids -> SeqsUpTo(FolderPool, MaxFolders)] :
          folders_task =
             FoldersDone(mailbox_ids,
                         [i \in DOMAIN mailbox_ids |->
                            AfterPage(FirstPage, [folders |-> lists[i]])])
    /\ new_task = [c \in Cycles |->
                     IF c = cycle
                     THEN [st |-> "done", res |-> [i \in Slots |-> Some(<<>>)],
                           ret |-> 0, order |-> [k \in 1..Cardinality(Slots) |-> k]]
                     ELSE NoTask]

(***************************************************************************)
(* SpecDetect: one cycle of an unfiltered engine from construction, and    *)
(* the detections of unfiltered and two-mailbox engines over every list of *)
(* at most MaxConvs conversations with identifiers up to MaxConvId.        *)
(***************************************************************************)
InitDetect == Constructed({<<>>}) \/ InDetection({<<>>, <<5, 9>>})

NextDetect ==
    Step(1, {EmptyPage}, {}, SeqsUpTo(1..MaxConvId, MaxConvs))

SpecDetect == InitDetect /\ [][NextDetect]_vars

(***************************************************************************)
(* SpecAggregate: one cycle of an unfiltered engine from construction, and *)
(* the aggregations of a two-mailbox engine over every pair of lists of at *)
(* most MaxFolders folders.                                                *)
(***************************************************************************)
InitAggregate == Constructed({<<>>}) \/ InAggregation({<<5, 9>>})

NextAggregate ==
    Step(1, FolderBodies({<<CustomA2, CustomA3>>}, {}), {1}, {<<1>>})

SpecAggregate == InitAggregate /\ [][NextAggregate]_vars

(***************************************************************************)
(* SpecCounts: one cycle of an engine that is unfiltered or filtered to    *)
(* two mailboxes, the count queries reporting totals up to MaxTotal or     *)
(* none.                                                                   *)
(***************************************************************************)
InitCounts == Constructed({<<>>, <<5, 9>>})

NextCounts == Step(1, {EmptyPage}, 1..MaxTotal, {<<1>>})

SpecCounts == InitCounts /\ [][NextCounts]_vars

\* The detection of a cycle whose other tasks have returned awaits the
\* answers to all its requests.
InMerge(filters) ==
    /\ mailbox_ids \in filters
    /\ agent_id = DEFAULT_AGENT_ID
    /\ custom_folders = <<>>
    /\ data = None
    /\ \/ first_refresh = TRUE /\ known_ids = {} /\ cycle = 1 /\ outcome = "none"
       \/ /\ first_refresh = FALSE
          /\ known_ids \in SUBSET (1..MaxConvId)
          /\ cycle = MaxCycles
          /\ outcome = "failed"
    /\ Started
    /\ folders_task =
          FoldersDone(mailbox_ids,
                      [i \in DOMAIN mailbox_ids |-> AfterPage(FirstPage, EmptyPage)])
    /\ new_task = [c \in Cycles |-> IF c = cycle THEN Fetching ELSE NoTask]

(***************************************************************************)
(* SpecMerge: one cycle of an unfiltered engine from construction, and the *)
(* detections of unfiltered and two-mailbox engines whose requests are     *)
(* answered in any order with any lists of at most MaxConvs conversations. *)
(***************************************************************************)
InitMerge == Constructed({<<>>}) \/ InMerge({<<>>, <<5, 9>>})

NextMerge ==
    Step(1, {EmptyPage}, {}, SeqsUpTo(1..MaxConvId, MaxConvs))

SpecMerge == InitMerge /\ [][NextMerge]_vars

(***************************************************************************)
(* A helpdesk whose folder listing grows under the engine's eyes: the      *)
(* answer to page p reports p + 1 pages.  The model follows one fetch for  *)
(* MaxRequests pages; the code sets no such limit.                         *)
(***************************************************************************)
OneMorePage(i) ==
    [folders |-> <<>>, totalPages |-> folders_task.fetch[i].page + 1]

GrowingFoldersResponse(i) ==
    /\ folders_task.st = "fan"
    /\ i \in DOMAIN folders_task.fetch
    /\ folders_task.fetch[i].page < MaxRequests
    /\ FoldersResponse(i, "ok", OneMorePage(i))

(***************************************************************************)
(* SpecGrow: one cycle of an engine that is unfiltered or filtered to one  *)
(* mailbox, against the growing helpdesk, which answers every folder       *)
(* request it is sent.                                                     *)
(***************************************************************************)
InitGrow == Constructed({<<>>, <<5>>})

NextGrow ==
    \/ Step(1, {}, {}, {})
    \/ \E i \in 1..2 : GrowingFoldersResponse(i)

SpecGrow ==
    /\ InitGrow
    /\ [][NextGrow]_vars
    /\ WF_vars(\E i \in 1..2 : GrowingFoldersResponse(i))

(***************************************************************************)
(* SpecColdStart: MaxCycles cycles of an engine that is unfiltered or      *)
(* filtered to one mailbox, whose recent-conversations queries fail or     *)
(* return no conversation or conversation 1.                               *)
(***************************************************************************)
InitColdStart == Constructed({<<>>, <<5>>})

NextColdStart == Step(MaxCycles, {EmptyPage}, {}, {<<>>, <<1>>})

SpecColdStart == InitColdStart /\ [][NextColdStart]_vars

(***************************************************************************)
(* Steps and states the claims speak of.                                   *)
(***************************************************************************)
\* The step in which the detection task of cycle c runs from its fetched
\* results to its return.
DetectStep(c) ==
    /\ new_task[c].st = "fetch"
    /\ AllArrived(new_task[c].res)
    /\ new_task'[c].st # "fetch"

\* The step in which _async_update_data returns its snapshot.
ReturnStep == pc \in {"gather", "agent"} /\ pc' = "idle"

\* The step in which _async_update_data raises UpdateFailed.
FailStep == pc = "except" /\ pc' = "idle"

\* A failed request of a count query or of new-arrival detection.
HardError(e) == e.task \in {"open", "pending", "agent", "recent"}

(***************************************************************************)
(* C3: a cycle that ends in failure leaves known_ids and first_refresh as  *)
(* they were when the cycle started.                                       *)
(***************************************************************************)
C3_FailedCycleKeepsKnownIds ==
    [][FailStep => /\ known_ids' = at_start.known
                   /\ first_refresh' = at_start.first]_vars

(***************************************************************************)
(* C4: a detection task runs its diff-emit-replace step only while its own *)
(* cycle is in flight, never after that cycle was reported failed and      *)
(* never during a later cycle.                                             *)
(***************************************************************************)
C4_NoDetectionAfterFailure ==
    [][\A c \in Cycles :
          DetectStep(c) => c = cycle /\ pc \in {"gather", "except"}]_vars

(***************************************************************************)
(* C5: once a count query (open, pending, agent-scoped) or a recent-       *)
(* conversations query of the cycle in flight has failed, with a non-2xx   *)
(* response or a connection error, the cycle is on its way to UpdateFailed *)
(* and ends failed without returning a snapshot.                           *)
(***************************************************************************)
C5_HardFailureAbortsCycle ==
    /\ []((\E e \in errors : HardError(e)) => pc = "except")
    /\ [][pc = "except" => /\ pc' \in {"except", "idle"}
                           /\ data' = data
                           /\ pc' = "idle" => outcome' = "failed"]_vars

C5_Witness ==
    /\ pc = "except"
    /\ mailbox_ids = <<5, 9>>
    /\ [task |-> "agent", status |-> "http"] \in errors

Broken(i) == folders_task.fetch[i].st = "broke"

\* The folders the helpdesk sent for the pages of fetch f that were answered.
Received(f) == Flatten([k \in DOMAIN f.got |-> Get(f.got[k], "folders", <<>>)])

\* What the mailboxes contribute to the folders of type t: in full where no
\* request failed, what was collected before the failure otherwise.
Contribution(t) ==
    SumSeq([j \in DOMAIN folders_task.fetch |->
               IF Broken(j)
               THEN SumActive(folders_task.fetch[j].all_folders, t)
               ELSE SumActive(Received(folders_task.fetch[j]), t)])

(***************************************************************************)
(* C6: a non-2xx answer to one mailbox's folder request does not fail the  *)
(* cycle, and when the cycle returns, every other mailbox has collected    *)
(* the folders of all the pages it requested and the snapshot's            *)
(* unassigned, snoozed and custom-folder values count all of them.         *)
(***************************************************************************)
C6_FolderFailureIsIsolated ==
    /\ [](pc = "except" => \E e \in errors : HardError(e) \/ e.status = "conn")
    /\ [][(ReturnStep /\ \E i \in DOMAIN folders_task.fetch : Broken(i)) =>
            /\ outcome' = "ok"
            /\ \A j \in DOMAIN folders_task.fetch :
                  ~Broken(j) => Len(folders_task.fetch[j].got)
                                  = Len(folders_task.fetch[j].log)
            /\ data'[1][SENSOR_UNASSIGNED] = Contribution(FOLDER_TYPE_UNASSIGNED)
            /\ data'[1][SENSOR_SNOOZED] = Contribution(FOLDER_TYPE_SNOOZED)
            /\ Contribution(FOLDER_TYPE_CUSTOM) > 0 =>
                  data'[1][FolderKey("A")] = Contribution(FOLDER_TYPE_CUSTOM)]_vars

\* The gather has completed although a folder request of mailbox 9 failed,
\* mailbox 5 having fetched two pages.
C6_Witness ==
    /\ Gathered
    /\ mailbox_ids = <<5, 9>>
    /\ Broken(2)
    /\ folders_task.fetch[1].st = "done"
    /\ Len(folders_task.fetch[1].got) = FanOutPages
    /\ [task |-> "folders", status |-> "http"] \in errors

AllReport(f, n) ==
    \A k \in DOMAIN f.got : "totalPages" \in DOMAIN f.got[k] /\ f.got[k].totalPages = n

(***************************************************************************)
(* C10: a folder fetch requests the pages 1, 2, ... in this order; when    *)
(* every answer succeeded and reported the same totalPages n >= 1 it has   *)
(* requested exactly the pages 1..n, and when the answer to page 1 reports *)
(* no totalPages it has requested page 1 only.                             *)
(***************************************************************************)
C10_PaginationRequests ==
    \A i \in DOMAIN folders_task.fetch :
        LET f == folders_task.fetch[i]
        IN  /\ f.log = [k \in 1..Len(f.log) |-> k]
            /\ \A n \in 1..MaxPages :
                  AllReport(f, n) => /\ Len(f.log) <= n
                                     /\ f.st = "done" => Len(f.log) = n
            /\ (f.got # <<>> /\ "totalPages" \notin DOMAIN f.got[1]) =>
                  f.st = "done" /\ f.log = <<1>>

C10_Witness ==
    \E i \in DOMAIN folders_task.fetch :
        LET f == folders_task.fetch[i]
        IN  /\ f.st = "done"
            /\ AllReport(f, MaxPages)
            /\ f.log = [k \in 1..MaxPages |-> k]
            /\ MaxPages >= 3

FixedKeys ==
    {SENSOR_OPEN, SENSOR_UNASSIGNED, SENSOR_PENDING, SENSOR_SNOOZED, SENSOR_NEW,
     SENSOR_MY_TICKETS}

CustomFoldersOf(folders) ==
    {k \in DOMAIN folders : HasType(folders[k], FOLDER_TYPE_CUSTOM)}

CustomNames(folders) == {folders[k].name : k \in CustomFoldersOf(folders)}

\* `snapshot` is complete and holds the values of the cycle in flight.
OfThisCycle(snapshot) ==
    /\ DOMAIN snapshot =
          FixedKeys \cup {FolderKey(n) : n \in CustomNames(folders_task.ret)}
    /\ snapshot[SENSOR_OPEN] = open_task.ret
    /\ snapshot[SENSOR_PENDING] = pending_task.ret
    /\ snapshot[SENSOR_NEW] = new_task[cycle].ret
    /\ snapshot[SENSOR_UNASSIGNED] = SumActive(folders_task.ret, FOLDER_TYPE_UNASSIGNED)
    /\ snapshot[SENSOR_SNOOZED] = SumActive(folders_task.ret, FOLDER_TYPE_SNOOZED)
    /\ snapshot[SENSOR_MY_TICKETS] =
          IF agent_id = DEFAULT_AGENT_ID THEN None ELSE Some(my_task.ret)
    /\ \A n \in CustomNames(folders_task.ret) :
          snapshot[FolderKey(n)] =
             SumSeq([k \in DOMAIN folders_task.ret |->
                       IF k \in CustomFoldersOf(folders_task.ret)
                          /\ folders_task.ret[k].name = n
                       THEN ActiveCount(folders_task.ret[k]) ELSE 0])

(***************************************************************************)
(* C7: the snapshot the driver serves changes only when a cycle returns,   *)
(* and then to a complete snapshot made of that cycle's counts and         *)
(* folders alone; a failing cycle leaves it as it was.                     *)
(***************************************************************************)
C7_SnapshotAllOrNothing ==
    [][/\ data' # data => ReturnStep
       /\ ReturnStep => outcome' = "ok" /\ data' # None /\ OfThisCycle(data'[1])
       /\ FailStep => outcome' = "failed" /\ data' = data]_vars

\* The second cycle has failed after the first one returned a snapshot with
\* a custom folder, and that snapshot is still served.
C7_Witness ==
    /\ cycle = 2
    /\ pc = "idle"
    /\ outcome = "failed"
    /\ data # None
    /\ FolderKey("A") \in DOMAIN data[1]
    /\ data[1][SENSOR_UNASSIGNED] = 2

RegistryNames == {custom_folders[k].name : k \in DOMAIN custom_folders}

(***************************************************************************)
(* C8: custom_folders is set once, by the first returning cycle whose      *)
(* folders include a custom one, to the names of that cycle's custom       *)
(* folders; from then on no step changes it.                               *)
(***************************************************************************)
C8_RegistryPopulatedOnce ==
    [][/\ custom_folders # <<>> => custom_folders' = custom_folders
       /\ custom_folders' # custom_folders =>
             /\ ReturnStep
             /\ CustomNames(folders_task.ret) # {}
             /\ {custom_folders'[k].name : k \in DOMAIN custom_folders'}
                   = CustomNames(folders_task.ret)
             /\ \A k \in DOMAIN custom_folders' :
                   custom_folders'[k].key = FolderKey(custom_folders'[k].name)
       /\ (ReturnStep /\ custom_folders = <<>> /\ CustomNames(folders_task.ret) # {})
             => custom_folders' # <<>>]_vars

\* The registry still names folder A after a later cycle returned a
\* snapshot without it.
C8_Witness ==
    /\ RegistryNames = {"A"}
    /\ cycle = 2
    /\ outcome = "ok"
    /\ data # None
    /\ FolderKey("A") \notin DOMAIN data[1]

\* The identifiers in the answers the detection of cycle c holds.
FetchedIds(c) ==
    UNION {{new_task[c].res[i][1][k].id : k \in DOMAIN new_task[c].res[i][1]} :
              i \in DOMAIN new_task[c].res}

(***************************************************************************)
(* C1: the detection run that finds first_refresh still set stores the     *)
(* identifiers of all fetched conversations in known_ids, clears the flag, *)
(* returns 0 and fires no event, whatever was fetched.                     *)
(***************************************************************************)
C1_ColdStart ==
    [][\A c \in Cycles :
          (DetectStep(c) /\ first_refresh) =>
             /\ known_ids' = FetchedIds(c)
             /\ first_refresh' = FALSE
             /\ fired' = <<>>
             /\ Joined(c) => new_task'[c].st = "done" /\ new_task'[c].ret = 0]_vars

\* The first detection of a two-mailbox engine has run over two
\* conversations and returned 0.
C1_Witness ==
    /\ cycle = 1
    /\ at_start.first
    /\ mailbox_ids = <<5, 9>>
    /\ new_task[1].st = "done"
    /\ new_task[1].ret = 0
    /\ known_ids = {1, 2}
    /\ ~first_refresh
    /\ fired = <<>>

EventsFor(events, id) == {k \in DOMAIN events : events[k].conversation_id = id}

(***************************************************************************)
(* C2: a detection run after the first returns the number of fetched       *)
(* identifiers that are not in known_ids and fires exactly one event for   *)
(* each of them, and no other event.                                       *)
(***************************************************************************)
C2_OneNotificationPerNewId ==
    [][\A c \in Cycles :
          (DetectStep(c) /\ ~first_refresh) =>
             LET new_ids == FetchedIds(c) \ known_ids
             IN  /\ Joined(c) => new_task'[c].ret = Cardinality(new_ids)
                 /\ Len(fired') = Cardinality(new_ids)
                 /\ \A id \in new_ids : Cardinality(EventsFor(fired', id)) = 1]_vars

\* The custom-type folders named n that mailbox slot j collected.
CustomNamed(j, n) ==
    LET fs == folders_task.fetch[j].all_folders
    IN  [k \in DOMAIN fs |->
           IF HasType(fs[k], FOLDER_TYPE_CUSTOM) /\ fs[k].name = n
           THEN ActiveCount(fs[k]) ELSE 0]

AllCustomNames ==
    UNION {CustomNames(folders_task.fetch[j].all_folders) :
              j \in DOMAIN folders_task.fetch}

(***************************************************************************)
(* C9: the snapshot a cycle returns has one folder key for each name that  *)
(* a custom-type folder of some mailbox bears, and under it the sum of the *)
(* active counts of the custom-type folders of that name over all          *)
(* mailboxes.                                                              *)
(***************************************************************************)
C9_CustomFoldersMergeByName ==
    [][ReturnStep =>
          /\ DOMAIN data'[1] \ FixedKeys = {FolderKey(n) : n \in AllCustomNames}
          /\ Cardinality(DOMAIN data'[1] \ FixedKeys) = Cardinality(AllCustomNames)
          /\ \A n \in AllCustomNames :
                data'[1][FolderKey(n)] =
                   SumSeq([j \in DOMAIN folders_task.fetch |-> SumSeq(CustomNamed(j, n))])]_vars

\* Two mailboxes reported folder A, with 2 and with 3 active conversations:
\* the snapshot has the one key folder_A, with value 5.
C9_Witness ==
    /\ mailbox_ids = <<5, 9>>
    /\ outcome = "ok"
    /\ data # None
    /\ DOMAIN data[1] \ FixedKeys = {"folder_A"}
    /\ data[1]["folder_A"] = 5
    /\ data[1][SENSOR_UNASSIGNED] = 0

\* The count requests the cycle has issued for the query with `base_params`:
\* those with perPage = 1 and just these parameters besides the mailbox.
IssuedFor(base_params) ==
    SelectSeq(sent, LAMBDA r :
        /\ r.path = "/api/conversations"
        /\ r.params.perPage = "1"
        /\ DOMAIN r.params \ {"mailboxId"} = DOMAIN base_params \cup {"perPage", "page"}
        /\ \A k \in DOMAIN base_params : r.params[k] = base_params[k])

\* The requests a count query is to issue: one per filtered mailbox, in
\* filter order, or a single one without mailboxId.
FannedOut(requests) ==
    /\ \A k \in DOMAIN requests : requests[k].params.page = "1"
    /\ IF mailbox_ids = <<>>
       THEN Len(requests) = 1 /\ "mailboxId" \notin DOMAIN requests[1].params
       ELSE /\ Len(requests) = Len(mailbox_ids)
            /\ \A k \in DOMAIN requests :
                  /\ "mailboxId" \in DOMAIN requests[k].params
                  /\ requests[k].params.mailboxId = ToString(mailbox_ids[k])

\* A started count query has its requests out; a finished one returns the
\* sum of the totals it was sent.
CountedRight(task, base_params) ==
    /\ task.st \in {"run", "done"} => FannedOut(IssuedFor(base_params))
    /\ task.st = "done" =>
          task.ret = SumSeq([k \in 1..Len(IssuedFor(base_params)) |-> task.res[k][1]])

(***************************************************************************)
(* C11: a count query issues one conversations request per filtered        *)
(* mailbox, with that mailboxId, perPage = 1 and page = 1, or a single     *)
(* request without mailboxId when the filter is empty, and returns the sum *)
(* of the totalElements it was sent; no count request is for another page. *)
(***************************************************************************)
C11_CountFanOut ==
    /\ CountedRight(open_task, OpenParams)
    /\ CountedRight(pending_task, PendingParams)
    /\ CountedRight(my_task, AgentParams)
    /\ \A k \in DOMAIN sent :
          (sent[k].path = "/api/conversations" /\ sent[k].params.perPage = "1")
             => sent[k].params.page = "1"

\* With the filter <<5, 9>>, the open count was sent 1 and 2 and returned 3.
C11_Witness ==
    /\ mailbox_ids = <<5, 9>>
    /\ open_task.st = "done"
    /\ open_task.res = <<Some(1), Some(2)>>
    /\ open_task.ret = 3
    /\ Len(IssuedFor(OpenParams)) = 2

\* Some request of the cycle carries an assignedTo parameter.
AgentRequestIssued ==
    \E k \in DOMAIN sent : "assignedTo" \in DOMAIN sent[k].params

(***************************************************************************)
(* C12: an engine whose agent id is 0 issues no request with an assignedTo *)
(* parameter and serves None as my_tickets in every snapshot; an engine    *)
(* with another agent id returns, in every snapshot, the count of the      *)
(* active conversations assigned to that agent as my_tickets.              *)
(***************************************************************************)
C12_AgentGating ==
    /\ [](agent_id = DEFAULT_AGENT_ID =>
             /\ ~AgentRequestIssued
             /\ data # None => data[1][SENSOR_MY_TICKETS] = None)
    /\ [][(agent_id # DEFAULT_AGENT_ID /\ ReturnStep) =>
             /\ my_task.st = "done"
             /\ FannedOut(IssuedFor([status |-> "active",
                                     assignedTo |-> ToString(agent_id)]))
             /\ data'[1][SENSOR_MY_TICKETS] = Some(my_task.ret)]_vars

\* Agent 7's engine serves a snapshot whose my_tickets is the 1 it was sent.
C12_Witness ==
    /\ agent_id = 7
    /\ outcome = "ok"
    /\ data # None
    /\ data[1][SENSOR_MY_TICKETS] = Some(1)

\* What the mailboxes whose folder fetch met no error contribute to the
\* folders of type t.
UnbrokenContribution(t) ==
    SumSeq([j \in DOMAIN folders_task.fetch |->
               IF Broken(j) THEN 0
               ELSE SumActive(folders_task.fetch[j].all_folders, t)])

(***************************************************************************)
(* C13: when a cycle returns after a folder request of some mailbox got a  *)
(* non-2xx answer, on whichever page, none of that mailbox's folders is    *)
(* counted: unassigned, snoozed and the custom-folder values are those of  *)
(* the other mailboxes alone.                                              *)
(***************************************************************************)
C13_BrokenMailboxCountsAsEmpty ==
    [][(ReturnStep /\ \E i \in DOMAIN folders_task.fetch : Broken(i)) =>
          /\ data'[1][SENSOR_UNASSIGNED] = UnbrokenContribution(FOLDER_TYPE_UNASSIGNED)
          /\ data'[1][SENSOR_SNOOZED] = UnbrokenContribution(FOLDER_TYPE_SNOOZED)
          /\ IF UnbrokenContribution(FOLDER_TYPE_CUSTOM) = 0
             THEN DOMAIN data'[1] = FixedKeys
             ELSE data'[1][FolderKey("A")] = UnbrokenContribution(FOLDER_TYPE_CUSTOM)]_vars

\* The step in which the mailbox-list request is answered with a failure or
\* with no mailbox.
NoMailboxesStep ==
    /\ pc = "gather"
    /\ folders_task.st = "list"
    /\ \/ \E e \in errors' \ errors : e.task = "mailboxes"
       \/ folders_task'.st = "done"

\* The mailbox-list request was answered with a connection error.
ListConnectionError == [task |-> "mailboxes", status |-> "conn"] \in errors' \ errors

\* The folder task returns no folder, having requested none, and the cycle
\* goes on.
GoesOnWithoutFolders ==
    /\ pc' = "gather"
    /\ folders_task'.st = "done"
    /\ folders_task'.fetch = <<>>
    /\ folders_task'.ret = <<>>

\* A filtered engine requests no mailbox list.
NoListWhenFiltered ==
    mailbox_ids # <<>> => \A k \in DOMAIN sent : sent[k] # MailboxesRequest

\* An unfiltered cycle without mailboxes returns a snapshot with no folder
\* value next to its open, pending and new counts.
ReturnsCountsAlone ==
    (ReturnStep /\ mailbox_ids = <<>> /\ folders_task.mbs = <<>>) =>
       /\ outcome' = "ok"
       /\ DOMAIN data'[1] = FixedKeys
       /\ data'[1][SENSOR_UNASSIGNED] = 0
       /\ data'[1][SENSOR_SNOOZED] = 0
       /\ data'[1][SENSOR_OPEN] = open_task.ret
       /\ data'[1][SENSOR_PENDING] = pending_task.ret
       /\ data'[1][SENSOR_NEW] = new_task[cycle].ret

(***************************************************************************)
(* C14, as claimed: an unfiltered engine whose mailbox-list request fails, *)
(* with a non-2xx answer or a connection error, or lists no mailbox goes   *)
(* on with the cycle with no folder and no folder request, and the         *)
(* snapshot it returns has unassigned = 0, snoozed = 0 and no folder key   *)
(* next to its open, pending and new counts; a filtered engine requests no *)
(* mailbox list.                                                           *)
(***************************************************************************)
C14_MailboxListFailureIsSoft ==
    /\ []NoListWhenFiltered
    /\ [][NoMailboxesStep => GoesOnWithoutFolders]_vars
    /\ [][ReturnsCountsAlone]_vars

(***************************************************************************)
(* C14, amended: the same for a non-2xx answer and for an empty list; a    *)
(* connection error of the mailbox-list request sends the cycle to         *)
(* UpdateFailed.                                                           *)
(***************************************************************************)
C14_SoftUnlessConnectionError ==
    /\ []NoListWhenFiltered
    /\ [][(NoMailboxesStep /\ ~ListConnectionError) => GoesOnWithoutFolders]_vars
    /\ [][(NoMailboxesStep /\ ListConnectionError) => pc' = "except"]_vars
    /\ [][ReturnsCountsAlone]_vars

\* The gather has completed after a non-2xx answer to the mailbox-list
\* request, with an open count of 1 and no folder.
C14_Witness ==
    /\ Gathered
    /\ mailbox_ids = <<>>
    /\ [task |-> "mailboxes", status |-> "http"] \in errors
    /\ folders_task.ret = <<>>
    /\ open_task.ret = 1

\* The number of conversations in the answers the detection of cycle c holds.
FetchedCount(c) ==
    SumSeq([i \in 1..Len(new_task[c].res) |-> Len(new_task[c].res[i][1])])

(***************************************************************************)
(* C15: every detection run leaves in known_ids exactly the identifiers it *)
(* fetched: those it knew and did not fetch again are forgotten, so that a *)
(* fetched identifier is reported whenever the run before did not fetch    *)
(* it, and known_ids has no more elements than conversations were fetched. *)
(***************************************************************************)
C15_KnownIdsReplaced ==
    [][\A c \in Cycles :
          DetectStep(c) =>
             /\ known_ids' = FetchedIds(c)
             /\ known_ids' \cap (known_ids \ FetchedIds(c)) = {}
             /\ Cardinality(known_ids') <= FetchedCount(c)
             /\ ~first_refresh =>
                   \A id \in FetchedIds(c) \ known_ids : EventsFor(fired', id) # {}]_vars

\* A detection that knew 1 and fetched 2 alone has forgotten 1 and reported 2.
C15_Witness ==
    /\ at_start.known = {1}
    /\ ~at_start.first
    /\ new_task[cycle].st = "done"
    /\ known_ids = {2}
    /\ new_task[cycle].ret = 1
    /\ Len(fired) = 1
    /\ fired[1].conversation_id = 2

\* All the conversations the detection of cycle c was sent: the answers in
\* the order of their requests, each in the order of the response.
AllFetched(c) == Flatten(Results(new_task[c].res))

\* The positions of AllFetched(c) that are the first with their identifier.
FirstOccurrences(c) ==
    {k \in DOMAIN AllFetched(c) :
        \A j \in 1..(k - 1) : AllFetched(c)[j].id # AllFetched(c)[k].id}

(***************************************************************************)
(* C16: whatever the order in which the per-mailbox answers arrived, the   *)
(* merged list of a filtered engine holds each identifier once, its        *)
(* identifiers are those of all the answers, and the conversation it holds *)
(* for an identifier is the first one with it, mailboxes taken in filter   *)
(* order and each answer in response order.                                *)
(***************************************************************************)
C16_MergeIgnoresCompletionOrder ==
    [][\A c \in Cycles :
          (DetectStep(c) /\ mailbox_ids # <<>>) =>
             LET merged == Fetched(c)
             IN  /\ \A a, b \in DOMAIN merged :
                       merged[a].id = merged[b].id => a = b
                 /\ {merged[k].id : k \in DOMAIN merged} = FetchedIds(c)
                 /\ \A k \in DOMAIN merged :
                       \E p \in FirstOccurrences(c) : AllFetched(c)[p] = merged[k]]_vars

\* Mailbox 9 answered before mailbox 5, both with conversation 1: the one
\* event fired is for the conversation of mailbox 5.
C16_Witness ==
    /\ mailbox_ids = <<5, 9>>
    /\ new_task[cycle].st = "done"
    /\ new_task[cycle].order = <<2, 1>>
    /\ 1 \in FetchedIds(cycle)
    /\ \A i \in 1..2 : \E k \in DOMAIN new_task[cycle].res[i][1] :
          new_task[cycle].res[i][1][k].id = 1
    /\ ~at_start.first
    /\ at_start.known = {}
    /\ Len(fired) >= 1
    /\ fired[1].conversation_id = 1
    /\ fired[1].mailbox_id = 5

\* The positions of AllFetched(c) that the merged list keeps: all of them
\* for the single unfiltered answer, the first occurrences otherwise.
Kept(c) ==
    IF mailbox_ids = <<>> THEN DOMAIN AllFetched(c) ELSE FirstOccurrences(c)

\* The kept positions whose identifier is not in known_ids.
NewPositions(c) == {k \in Kept(c) : AllFetched(c)[k].id \notin known_ids}

\* The j-th smallest element of the set S of numbers.
Nth(S, j) == CHOOSE k \in S : Cardinality({x \in S : x < k}) = j - 1

(***************************************************************************)
(* C20: a detection run after the first fires its events in the order in   *)
(* which the new conversations stand in the merged list: by mailbox in     *)
(* filter order, then by position in the response, whatever the order in   *)
(* which the answers arrived.                                              *)
(***************************************************************************)
C20_NotificationsInMergedOrder ==
    [][\A c \in Cycles :
          (DetectStep(c) /\ ~first_refresh) =>
             /\ Len(fired') = Cardinality(NewPositions(c))
             /\ \A j \in DOMAIN fired' :
                   LET conv == AllFetched(c)[Nth(NewPositions(c), j)]
                   IN  /\ fired'[j].conversation_id = conv.id
                       /\ fired'[j].subject = conv.subject
                       /\ fired'[j].mailbox_id = conv.mailboxId]_vars

\* Mailbox 9 answered before mailbox 5, with conversation 2 and with
\* conversation 1: the event for 1 was fired first.
C20_Witness ==
    /\ mailbox_ids = <<5, 9>>
    /\ new_task[cycle].st = "done"
    /\ new_task[cycle].order = <<2, 1>>
    /\ ~at_start.first
    /\ at_start.known = {}
    /\ Len(fired) = 2
    /\ fired[1].conversation_id = 1 /\ fired[1].mailbox_id = 5
    /\ fired[2].conversation_id = 2 /\ fired[2].mailbox_id = 9

\* The step in which a cycle starts.
StartStep == pc = "idle" /\ pc' = "gather"

(***************************************************************************)
(* C17, as claimed: the agent-scoped count is issued with the folder       *)
(* enumeration and the open and pending counts, when the cycle starts, so  *)
(* that it is in flight while they are.                                    *)
(***************************************************************************)
C17_AgentCountIssuedWithTheOthers ==
    [][(StartStep /\ agent_id # DEFAULT_AGENT_ID) => AgentRequestIssued']_vars

(***************************************************************************)
(* C17, amended: the agent-scoped count is issued once the folder          *)
(* enumeration, the open and pending counts and the detection have all     *)
(* returned; it is never in flight while one of them is.                   *)
(***************************************************************************)
C17_AgentCountAfterTheGather ==
    /\ [](pc = "gather" => ~AgentRequestIssued /\ my_task.st = "idle")
    /\ [](my_task.st = "run" =>
             /\ folders_task.st = "done"
             /\ open_task.st = "done"
             /\ pending_task.st = "done"
             /\ new_task[cycle].st = "done")
    /\ [][(~AgentRequestIssued /\ AgentRequestIssued') =>
             Gathered /\ agent_id # DEFAULT_AGENT_ID /\ pc' = "agent"]_vars

\* The agent-scoped count is in flight, the four tasks having returned.
C17_Witness ==
    /\ pc = "agent"
    /\ my_task.st = "run"
    /\ AgentRequestIssued
    /\ open_task.st = "done"
    /\ mailbox_ids = <<5>>

\* The folder fetch of slot i awaits the answer to a request.
FetchAwaits(i) ==
    /\ folders_task.st = "fan"
    /\ i \in DOMAIN folders_task.fetch
    /\ folders_task.fetch[i].st = "wait"

OfType(j, t) ==
    LET fs == folders_task.fetch[j].all_folders
    IN  [k \in DOMAIN fs |-> IF HasType(fs[k], t) THEN ActiveCount(fs[k]) ELSE 0]

SumOverMailboxes(t) ==
    SumSeq([j \in DOMAIN folders_task.fetch |-> SumSeq(OfType(j, t))])

(***************************************************************************)
(* C19: in the snapshot a cycle returns, unassigned is the sum of the      *)
(* active counts of the type-1 folders of all mailboxes and snoozed that   *)
(* of the type-180 folders; the only keys besides the fixed ones are those *)
(* of the type-185 folders, whose values are sums over type-185 folders,   *)
(* and the three conversation counts are those the count queries           *)
(* returned.  So a folder of another type changes no value and adds no     *)
(* key, and a mailbox without folders adds nothing.                        *)
(***************************************************************************)
C19_FolderClassification ==
    [][ReturnStep =>
          /\ data'[1][SENSOR_UNASSIGNED] = SumOverMailboxes(FOLDER_TYPE_UNASSIGNED)
          /\ data'[1][SENSOR_SNOOZED] = SumOverMailboxes(FOLDER_TYPE_SNOOZED)
          /\ DOMAIN data'[1] = FixedKeys \cup {FolderKey(n) : n \in AllCustomNames}
          /\ \A n \in AllCustomNames :
                data'[1][FolderKey(n)] =
                   SumSeq([j \in DOMAIN folders_task.fetch |-> SumSeq(CustomNamed(j, n))])
          /\ data'[1][SENSOR_OPEN] = open_task.ret
          /\ data'[1][SENSOR_PENDING] = pending_task.ret
          /\ data'[1][SENSOR_NEW] = new_task[cycle].ret]_vars

\* The fetches of a cycle have returned: mailbox 5 delivered an unassigned
\* folder (2) and a folder of type 20 (4), mailbox 9 an unassigned folder (2)
\* and a snoozed one (1); the snapshot the cycle computes from them has
\* unassigned = 4, snoozed = 1 and the fixed keys alone.
C19_Witness ==
    /\ Gathered
    /\ mailbox_ids = <<5, 9>>
    /\ folders_task.fetch[1].all_folders = <<Unassigned2, Mine4>>
    /\ folders_task.fetch[2].all_folders = <<Unassigned2, Snoozed1>>
    /\ CycleSnapshot[SENSOR_UNASSIGNED] = 4
    /\ CycleSnapshot[SENSOR_SNOOZED] = 1
    /\ DOMAIN CycleSnapshot = FixedKeys

C22_ColdStartSurvivesFailures ==
    /\ [](first_refresh => fired = <<>>)
    /\ [][(first_refresh /\ ~first_refresh') =>
             \E c \in Cycles : /\ DetectStep(c)
                               /\ known_ids' = FetchedIds(c)
                               /\ fired' = <<>>]_vars
    /\ [][FailStep => first_refresh' = first_refresh]_vars

\* The detection of the first cycle ended in a failed fetch and the cycle
\* failed with the flag still set; the detection of the second cycle received
\* conversation 1, seeded known_ids with it and emitted nothing.
C22_Witness ==
    /\ cycle = 2
    /\ new_task[1] = NoTask
    /\ at_start = [known |-> {}, first |-> TRUE]
    /\ new_task[2].st = "done"
    /\ ~first_refresh
    /\ known_ids = {1}
    /\ fired = <<>>

FolderError(status) == [task |-> "folders", status |-> status]

(***************************************************************************)
(* C23: a connection error in the folder fetch of any mailbox puts the     *)
(* cycle into its except clause, from which it fails without a new         *)
(* snapshot; a non-2xx folder answer is logged and the cycle goes on       *)
(* gathering.                                                              *)
(***************************************************************************)
C23_FolderConnectionErrorFailsCycle ==
    /\ [](FolderError("conn") \in errors => pc = "except")
    /\ [][(pc = "gather" /\ FolderError("conn") \in errors') =>
             /\ pc' = "except"
             /\ folders_task' = IdleFolders]_vars
    /\ [][(pc = "except" /\ FolderError("conn") \in errors) =>
             /\ pc' \in {"except", "idle"}
             /\ data' = data
             /\ pc' = "idle" => outcome' = "failed"]_vars
    /\ [][(FolderError("http") \notin errors /\ FolderError("http") \in errors') =>
             /\ pc = "gather" /\ pc' = "gather"
             /\ \E i \in DOMAIN folders_task.fetch :
                   folders_task.fetch[i].st = "wait" /\ folders_task'.fetch[i].st = "broke"]_vars

\* Of two mailboxes, one folder fetch was answered with a non-2xx status,
\* which was logged, and then the other met a connection error: the cycle is
\* in its except clause.
C23_Witness ==
    /\ pc = "except"
    /\ mailbox_ids = <<5, 9>>
    /\ FolderError("http") \in errors
    /\ FolderError("conn") \in errors

Notified(events) == {events[k].conversation_id : k \in DOMAIN events}

(***************************************************************************)
(* C24: in every state, the identifiers notified by the latest completed   *)
(* detection are members of known_ids; notifications and known_ids change  *)
(* only in the one step of a detection whose fetches have all returned,    *)
(* which emits for the fetched identifiers it did not know and sets        *)
(* known_ids to the fetched identifiers.                                   *)
(***************************************************************************)
C24_DiffEmitReplaceIsAtomic ==
    /\ [](Notified(fired) \subseteq known_ids)
    /\ [][(fired' # fired \/ known_ids' # known_ids) =>
             \E c \in Cycles :
                /\ DetectStep(c)
                /\ known_ids' = FetchedIds(c)
                /\ Notified(fired') =
                      IF first_refresh THEN {} ELSE FetchedIds(c) \ known_ids]_vars

\* The detection of the second cycle has notified conversation 1 and known_ids
\* holds it, while the open count of the same cycle still awaits its answer.
C24_Witness ==
    /\ cycle = 2
    /\ pc = "gather"
    /\ open_task.st = "run"
    /\ new_task[2].st = "done"
    /\ new_task[2].ret = 1
    /\ Notified(fired) = {1}
    /\ known_ids = {1}
=============================================================================
